---- MODULE Spec2Model ----
(***************************************************************************)
(* Mall billing system (app.py): the session cart, the promo evaluation    *)
(* and the checkout handler, with the admin catalogue and promo screens    *)
(* that change the rows checkout reads.                                    *)
(*                                                                         *)
(* Money.  The program keeps prices, discounts and totals as binary        *)
(* floats and rounds with round(x, 2).  The model keeps every amount as an *)
(* integer number of thousandths (mills) of the currency unit, so that an  *)
(* amount can fall between two cents and round(x, 2) is a real rounding:   *)
(* Round2 rounds to the nearest multiple of 10 mills, ties to even.        *)
(* A promo's discount_value is kept in tenths (of a percent point for a    *)
(* percent promo, of the currency unit for a fixed one).                   *)
(*                                                                         *)
(* Requests.  One browser session issues one request at a time; requests   *)
(* of different sessions and of the admin interleave.  A checkout request  *)
(* is two steps: the reads (cart, validation loop, promo lookup, payment   *)
(* check: lines 517-560) and the write (order, items, stock, cart: lines   *)
(* 562-581).  The reads run outside any database transaction, so another   *)
(* request's commit can fall between them and the write; the write is one  *)
(* transaction (flush to commit).  Every other handler is one step.        *)
(*                                                                         *)
(* flash[s] is the message the last request of session s flashed ("" when  *)
(* it flashed none): what the page the request redirects to will show.     *)
(*                                                                         *)
(* Cart keys are the product ids in canonical form; form values are drawn  *)
(* from the finite sets below.                                             *)
(***************************************************************************)
EXTENDS Integers, Sequences, FiniteSets, TLC

VARIABLES product, promo, now, user, cart, flash, req, orders

vars == <<product, promo, now, user, cart, flash, req, orders>>

----------------------------------------------------------------------------
(* Bounds of the model *)

MaxQty == 2
MaxStock == 1
MaxOrders == 2
MaxAdminOrders == 1
MaxTime == 2

Sessions == {"s1", "s2"}
ProductIds == {1, 2}
Users == {"cashier", "admin"}
NoUser == "anonymous"

\* Amounts in mills: 50.00 and 100.005
PriceInputs == {50000, 100005}
StockInputs == 0 .. MaxStock
QtyInputs == -1 .. MaxQty
\* paid_cash form values in mills: 0 (the default), 100.004, 250.00
PaidInputs == {0, 100004, 250000}
MethodInputs == {"cash", "card"}
\* a payment_method value the checkout form does not offer: a hand-made POST
\* can carry any string
ForgedMethods == {"cheque"}
\* the methods of the Order model's column comment (line 54)
PaymentMethods == {"cash", "card", "upi", "wallet"}
\* promo codes as typed into a form, before strip().upper()
RawCodes == {"", "save", " NOPE"}
KindInputs == {"percent", "fixed"}
\* discount_value in tenths: 10, 150 and -5
ValueInputs == {100, 1500, -50}
NoExpiry == -1
ExpiryInputs == {NoExpiry, 1}

----------------------------------------------------------------------------
(* Pure helpers *)

Max(a, b) == IF a >= b THEN a ELSE b
Min(a, b) == IF a <= b THEN a ELSE b

\* round(n / d) to the nearest integer, ties to even; d > 0
RoundDiv(n, d) ==
    LET q == n \div d
        r == n % d
    IN  IF 2 * r < d THEN q
        ELSE IF 2 * r > d THEN q + 1
        ELSE IF q % 2 = 0 THEN q ELSE q + 1

\* round(x, 2) of the amount n / d mills: a whole number of cents, in mills
Round2Ratio(n, d) == 10 * RoundDiv(n, 10 * d)

Round2(x) == Round2Ratio(x, 1)

\* str.strip().upper() on the form values of RawCodes
Normalize(raw) ==
    CASE raw = "" -> ""
      [] raw = "save" -> "SAVE"
      [] raw = " save" -> "SAVE"
      [] raw = " NOPE" -> "NOPE"

\* the code field of the promo form, and the codes the PromoCode table can hold
PromoFormCodes == {" save"}
Codes == {"SAVE"}

EmptyCart == [p \in {} |-> 0]

NoRow == [exists |-> FALSE, price |-> 0, stock |-> 0]
NoPromo == [exists |-> FALSE, kind |-> "", value |-> 0, active |-> FALSE, expires_at |-> NoExpiry]

\* Product.barcode of the seeded rows (lines 114-115); the admin forms of the
\* model resubmit a row's barcode unchanged, so the barcode of an id is fixed
Barcode(pid) == IF pid = 1 THEN "CLOTH001" ELSE "ACCS001"
BarcodeInputs == {"", "CLOTH001", "ACCS001", "NOSUCH"}
\* pid form values of add_by_id: the ids of the catalogue and one no row ever has
PidInputs == ProductIds \cup {0}

\* the local variables of a checkout request between its reads and its write;
\* loaded: the Product objects still held by the ORM session (see CheckoutWrite)
Idle == [pc |-> "idle", method |-> "", subtotal |-> 0, discount |-> 0, total |-> 0,
         paid |-> 0, change |-> 0, loaded |-> EmptyCart]

----------------------------------------------------------------------------
(* Cart: the dict session["cart"], product id -> quantity *)

CartGet(c, pid) == IF pid \in DOMAIN c THEN c[pid] ELSE 0

CartSet(c, pid, qty) == [p \in DOMAIN c \cup {pid} |-> IF p = pid THEN qty ELSE c[p]]

CartPop(c, pid) == [p \in DOMAIN c \ {pid} |-> c[p]]

\* (variant: the entry is set to 1 whatever it held)
CartAddResets(c, pid) == CartSet(c, pid, 1)

\* cart[pid] = cart.get(pid, 0) + 1
CartAdd(c, pid) == CartSet(c, pid, CartGet(c, pid) + 1)

\* (variant: the entry is stored whatever the quantity, never popped)
CartUpdateNeverPops(c, pid, qty) == CartSet(c, pid, Max(0, qty))

\* qty = max(0, int(qty)); qty == 0 pops the entry, otherwise it is stored
CartUpdate(c, pid, qty) ==
    LET q == Max(0, qty)
    IN  IF q = 0 THEN CartPop(c, pid) ELSE CartSet(c, pid, q)

\* Product.query.filter_by(barcode=code).first(): the id, or 0 when no row matches
FindByBarcode(code) ==
    LET hit == {p \in ProductIds : product[p].exists /\ Barcode(p) = code}
    IN  IF hit = {} THEN 0 ELSE CHOOSE p \in hit : TRUE

----------------------------------------------------------------------------
(* Login and logout *)

\* login_user(user): the session is bound to the user; nothing else in the
\* session changes
Login(s, u) ==
    /\ user[s] = NoUser
    /\ req[s].pc = "idle"
    /\ user' = [user EXCEPT ![s] = u]
    /\ UNCHANGED <<product, promo, now, cart, flash, req, orders>>

\* logout_user() removes the login keys of the session (_user_id, _fresh, _id);
\* session["cart"] is not among them
Logout(s) ==
    /\ user[s] # NoUser
    /\ req[s].pc = "idle"
    /\ user' = [user EXCEPT ![s] = NoUser]
    /\ UNCHANGED <<product, promo, now, cart, flash, req, orders>>

----------------------------------------------------------------------------
(* POST /pos *)

PosAddByBarcode(s, code) ==
    /\ user[s] # NoUser
    /\ req[s].pc = "idle"
    /\ LET pid == FindByBarcode(code)
       IN  IF code = ""
           THEN /\ flash' = [flash EXCEPT ![s] = "Scan or enter a barcode."]
                /\ UNCHANGED cart
           ELSE IF pid = 0
           THEN /\ flash' = [flash EXCEPT ![s] = "Product not found."]
                /\ UNCHANGED cart
           ELSE /\ CartGet(cart[s], pid) < MaxQty
                /\ cart' = [cart EXCEPT ![s] = CartAdd(cart[s], pid)]
                /\ flash' = [flash EXCEPT ![s] = ""]
    /\ UNCHANGED <<product, promo, now, user, req, orders>>

\* Product.query.get(pid) is None for an id no row has
PosAddById(s, pid) ==
    /\ user[s] # NoUser
    /\ req[s].pc = "idle"
    /\ IF pid \in ProductIds /\ product[pid].exists
       THEN /\ CartGet(cart[s], pid) < MaxQty
            /\ cart' = [cart EXCEPT ![s] = CartAdd(cart[s], pid)]
       ELSE UNCHANGED cart
    /\ flash' = [flash EXCEPT ![s] = ""]
    /\ UNCHANGED <<product, promo, now, user, req, orders>>

PosUpdateQty(s, pid, qty) ==
    /\ user[s] # NoUser
    /\ req[s].pc = "idle"
    /\ cart' = [cart EXCEPT ![s] = CartUpdate(cart[s], pid, qty)]
    /\ flash' = [flash EXCEPT ![s] = ""]
    /\ UNCHANGED <<product, promo, now, user, req, orders>>

PosClear(s) ==
    /\ user[s] # NoUser
    /\ req[s].pc = "idle"
    /\ cart' = [cart EXCEPT ![s] = EmptyCart]
    /\ flash' = [flash EXCEPT ![s] = ""]
    /\ UNCHANGED <<product, promo, now, user, req, orders>>

----------------------------------------------------------------------------
(* GET /pos: the cart page *)

RECURSIVE SumOver(_, _)
\* the accumulation subtotal += f(pid) over a set of cart keys
SumOver(f, keys) ==
    IF keys = {} THEN 0
    ELSE LET p == CHOOSE x \in keys : TRUE
         IN  f[p] + SumOver(f, keys \ {p})

\* subtotal += product.price * qty over the cart entries whose product exists
\* (lines 474-479)
PosViewSubtotal(c) ==
    SumOver([p \in DOMAIN c |-> IF product[p].exists THEN product[p].price * c[p] ELSE 0],
            DOMAIN c)

\* pc and (pc.expires_at is None or pc.expires_at >= utcnow()) for the active row
\* with that code (lines 494-495)
PosViewPromoFound(code) ==
    /\ code \in Codes
    /\ promo[code].exists /\ promo[code].active
    /\ (promo[code].expires_at = NoExpiry \/ promo[code].expires_at >= now)

\* (variant: the row with that code is applied whether active and unexpired or not)
PosViewDiscountUnchecked(raw, subtotal) ==
    LET code == Normalize(raw)
    IN  IF code \in Codes /\ promo[code].exists
        THEN IF promo[code].kind = "percent"
             THEN Round2Ratio(subtotal * promo[code].value, 100 * 10)
             ELSE Min(subtotal, 100 * promo[code].value)
        ELSE 0

\* promo_discount of the page for the query argument promo (lines 491-501)
PosViewDiscount(raw, subtotal) ==
    LET code == Normalize(raw)
    IN  IF code # "" /\ PosViewPromoFound(code)
        THEN IF promo[code].kind = "percent"
             THEN Round2Ratio(subtotal * promo[code].value, 100 * 10)
             ELSE Min(subtotal, 100 * promo[code].value)
        ELSE 0

\* total_after_discount = max(0.0, round(subtotal - promo_discount, 2)) (line 502)
PosViewTotal(c, raw) ==
    Max(0, Round2(PosViewSubtotal(c) - PosViewDiscount(raw, PosViewSubtotal(c))))

\* the page flashes the warning of line 501 for a code it does not apply
PosView(s, raw) ==
    /\ user[s] # NoUser
    /\ req[s].pc = "idle"
    /\ flash' = [flash EXCEPT ![s] =
                    IF Normalize(raw) # "" /\ ~PosViewPromoFound(Normalize(raw))
                    THEN "Invalid or expired promo code." ELSE ""]
    /\ UNCHANGED <<product, promo, now, user, cart, req, orders>>

----------------------------------------------------------------------------
(* POST /checkout *)

\* subtotal += product.price * qty over the cart (lines 523-529)
CartSubtotal(c, rows) ==
    SumOver([p \in DOMAIN c |-> rows[p].price * c[p]], DOMAIN c)

\* (variant: only the missing product is tested, not the stock)
StockShortMissingOnly(c, rows) == \E p \in DOMAIN c : ~rows[p].exists

\* not product or product.stock < qty, for some cart entry (line 526)
StockShort(c, rows) ==
    \E p \in DOMAIN c : ~rows[p].exists \/ rows[p].stock < c[p]

\* PromoCode.query.filter_by(code=promo_code, active=True).first() and the
\* expiry test pc.expires_at is None or pc.expires_at >= utcnow() (lines 537-538)
PromoUsable(code) ==
    /\ code \in Codes
    /\ promo[code].exists
    /\ promo[code].active
    /\ (promo[code].expires_at = NoExpiry \/ promo[code].expires_at >= now)

\* round(subtotal * (value / 100.0), 2) for a percent promo, min(subtotal, value)
\* otherwise (lines 539-542); value is in tenths, amounts in mills
PromoDiscount(pc, subtotal) ==
    IF pc.kind = "percent"
    THEN Round2Ratio(subtotal * pc.value, 100 * 10)
    ELSE Min(subtotal, 100 * pc.value)

\* (variant: the total is not clamped at zero)
TotalDueUnclamped(subtotal, discount) == Round2(subtotal - discount)

\* total_due = max(0.0, round(subtotal - promo_discount, 2)) (line 547)
TotalDue(subtotal, discount) == Max(0, Round2(subtotal - discount))

\* (variant: the paid_cash form value is recorded whatever the payment method)
AmountPaidAsTendered(method, paid_cash, total) == paid_cash

\* amount_paid: float(form paid_cash) for cash, total_due otherwise (lines 553, 559)
AmountPaid(method, paid_cash, total) == IF method = "cash" THEN paid_cash ELSE total

\* (variant: the change is not rounded)
ChangeDueUnrounded(method, paid_cash, total) ==
    IF method = "cash" THEN paid_cash - total ELSE 0

\* change_due: round(amount_paid - total_due, 2) for cash, 0.0 otherwise
\* (lines 557, 560)
ChangeDue(method, paid_cash, total) ==
    IF method = "cash" THEN Round2(paid_cash - total) ELSE 0

\* The reads of a checkout request, lines 517-560: the message it flashes when it
\* redirects back to the POS page ("" when it goes on to the write) and its locals
CheckoutLocals(c, method, raw, paid_cash) ==
    LET code == Normalize(raw)
        subtotal == CartSubtotal(c, product)
        discount == IF code # "" /\ PromoUsable(code)
                    THEN PromoDiscount(promo[code], subtotal) ELSE 0
        total == TotalDue(subtotal, discount)
        msg == IF c = EmptyCart THEN "Cart is empty."
               ELSE IF StockShort(c, product) THEN "Insufficient stock"
               ELSE IF code # "" /\ ~PromoUsable(code) THEN "Invalid or expired promo code."
               ELSE IF method = "cash" /\ paid_cash < total THEN "Paid amount is less than total."
               ELSE ""
    IN  IF msg # "" THEN [Idle EXCEPT !.method = msg]
        ELSE [pc |-> "commit", method |-> method, subtotal |-> subtotal,
              discount |-> discount, total |-> total,
              paid |-> AmountPaid(method, paid_cash, total),
              change |-> ChangeDue(method, paid_cash, total),
              loaded |-> IF Cardinality(DOMAIN c) = 1
                         THEN [p \in DOMAIN c |-> product[p]] ELSE EmptyCart]

\* the model's cap on the Order table: fewer than n orders written or under way
OrdersBelow(n) ==
    Len(orders) + Cardinality({t \in Sessions : req[t].pc = "commit"}) < n

CheckoutRead(s, method, raw, paid_cash) ==
    /\ user[s] # NoUser
    /\ req[s].pc = "idle"
    /\ LET l == CheckoutLocals(cart[s], method, raw, paid_cash)
       IN  IF l.pc = "idle"
           THEN /\ flash' = [flash EXCEPT ![s] = l.method]
                /\ UNCHANGED req
           ELSE /\ flash' = [flash EXCEPT ![s] = ""]
                /\ req' = [req EXCEPT ![s] = l]
    /\ UNCHANGED <<product, promo, now, user, cart, orders>>

\* Product.query.get(int(pid)) in the second loop (line 575).  Query.get returns
\* the object the ORM session already holds for that id without reading the row
\* again; the session holds an unmodified object only while the request still
\* references it, which after the first loop is the last product read: the
\* product of a one-entry cart.  Every other product is read from the table.
RowAtWrite(s, pid) ==
    IF pid \in DOMAIN req[s].loaded THEN req[s].loaded[pid] ELSE product[pid]

\* OrderItem(order_id, product_id, quantity=qty, unit_price=product.price) per
\* cart entry (line 576)
OrderItems(s) ==
    [p \in DOMAIN cart[s] |->
        [quantity |-> cart[s][p], unit_price |-> RowAtWrite(s, p).price]]

\* Order(cashier_id, total, paid_cash, change_due, payment_method) (lines 563-569)
\* with its items; subtotal and discount are the locals the total was computed
\* from, kept beside the row
NewOrder(s) ==
    [cashier |-> user[s], total |-> req[s].total, paid_cash |-> req[s].paid,
     change_due |-> req[s].change, payment_method |-> req[s].method,
     items |-> OrderItems(s),
     subtotal |-> req[s].subtotal, discount |-> req[s].discount]

\* (variant: the write also re-prices the items of the orders already in the
\* table at the products' current prices)
OrdersAfterRepriced(s) ==
    Append([i \in 1 .. Len(orders) |->
               [orders[i] EXCEPT !.items =
                   [p \in DOMAIN orders[i].items |->
                       [orders[i].items[p] EXCEPT !.unit_price = product[p].price]]]],
           NewOrder(s))

\* db.session.add(order) and db.session.add(OrderItem(...)) (lines 570, 576): one
\* row more in the Order table, with its items; no existing row is touched
OrdersAfter(s) == Append(orders, NewOrder(s))

\* product.stock -= qty (line 577)
StockAfter(s, pid) == RowAtWrite(s, pid).stock - cart[s][pid]

\* (variant: the cart is left as it was after the commit)
CartAfterCheckoutKept(s) == cart[s]

\* set_cart({}) after db.session.commit() (line 580)
CartAfterCheckout(s) == EmptyCart

\* The write of a checkout request, lines 562-581.  When a cart product's row
\* has been deleted since the reads the request raises (None.id, or an UPDATE
\* matching no row) and the transaction is rolled back.
CheckoutWrite(s) ==
    /\ req[s].pc = "commit"
    /\ IF \E p \in DOMAIN cart[s] : ~product[p].exists
       THEN UNCHANGED <<product, orders, cart>>
       ELSE /\ orders' = OrdersAfter(s)
            /\ product' = [p \in ProductIds |->
                              IF p \in DOMAIN cart[s]
                              THEN [product[p] EXCEPT !.stock = StockAfter(s, p)]
                              ELSE product[p]]
            /\ cart' = [cart EXCEPT ![s] = CartAfterCheckout(s)]
    /\ req' = [req EXCEPT ![s] = Idle]
    /\ UNCHANGED <<promo, now, user, flash>>

----------------------------------------------------------------------------
(* Admin: products and promo codes; the clock *)

\* product.price = float(form["price"]); product.stock = int(form["stock"])
ProductEdit(pid, price, stock) ==
    /\ product[pid].exists
    /\ product' = [product EXCEPT ![pid] = [exists |-> TRUE, price |-> price, stock |-> stock]]
    /\ UNCHANGED <<promo, now, user, cart, flash, req, orders>>

ProductDelete(pid) ==
    /\ product[pid].exists
    /\ product' = [product EXCEPT ![pid] = NoRow]
    /\ UNCHANGED <<promo, now, user, cart, flash, req, orders>>

\* the new row's id is the highest id in the table plus one
ProductNew(price, stock) ==
    LET ids == {p \in ProductIds : product[p].exists}
        nid == IF ids = {} THEN 1 ELSE 1 + CHOOSE p \in ids : \A q \in ids : q <= p
    IN  /\ nid \in ProductIds
        /\ product' = [product EXCEPT ![nid] = [exists |-> TRUE, price |-> price, stock |-> stock]]
        /\ UNCHANGED <<promo, now, user, cart, flash, req, orders>>

PromocodeNew(raw, kind, value, active, expires_at) ==
    LET code == Normalize(raw)
    IN  /\ code \in Codes
        /\ ~promo[code].exists
        /\ promo' = [promo EXCEPT ![code] =
                        [exists |-> TRUE, kind |-> kind, value |-> value,
                         active |-> active, expires_at |-> expires_at]]
        /\ UNCHANGED <<product, now, user, cart, flash, req, orders>>

PromocodeToggle(code) ==
    /\ promo[code].exists
    /\ promo' = [promo EXCEPT ![code].active = ~promo[code].active]
    /\ UNCHANGED <<product, now, user, cart, flash, req, orders>>

\* datetime.utcnow() advances
Tick ==
    /\ now < MaxTime
    /\ now' = now + 1
    /\ UNCHANGED <<product, promo, user, cart, flash, req, orders>>

----------------------------------------------------------------------------
(* Specifications *)

\* The catalogue as seeded: two products in stock, no promo code, no order
Seeded ==
    /\ product = [p \in ProductIds |->
                     [exists |-> TRUE, price |-> IF p = 1 THEN 50000 ELSE 100005,
                      stock |-> MaxStock]]
    /\ promo = [c \in Codes |-> NoPromo]
    /\ now = 1
    /\ cart = [s \in Sessions |-> EmptyCart]
    /\ flash = [s \in Sessions |-> ""]
    /\ req = [s \in Sessions |-> Idle]
    /\ orders = <<>>

(* Spec: the life of one browser session, from the login page on. *)

Init ==
    /\ Seeded
    /\ user = [s \in Sessions |-> NoUser]

Next ==
    \/ \E u \in Users : Login("s1", u)
    \/ Logout("s1")
    \/ \E code \in BarcodeInputs : PosAddByBarcode("s1", code)
    \/ \E pid \in PidInputs : PosAddById("s1", pid)
    \/ \E pid \in ProductIds, qty \in QtyInputs : PosUpdateQty("s1", pid, qty)
    \/ PosClear("s1")
    \/ OrdersBelow(MaxOrders) /\ \E m \in MethodInputs : CheckoutRead("s1", m, "", 250000)
    \/ CheckoutWrite("s1")

Spec == Init /\ [][Next]_vars

(* SpecRace: two cashiers, logged in, selling from the same stock. *)

InitRace ==
    /\ Seeded
    /\ user = [s \in Sessions |-> "cashier"]

NextRace ==
    \E s \in Sessions :
        \/ \E pid \in ProductIds : PosAddById(s, pid)
        \/ OrdersBelow(MaxOrders) /\ CheckoutRead(s, "card", "", 0)
        \/ CheckoutWrite(s)

SpecRace == InitRace /\ [][NextRace]_vars

(* SpecAdmin: one cashier selling while the admin changes the catalogue. *)

NextAdmin ==
    \/ \E pid \in ProductIds : PosAddById("s1", pid)
    \/ OrdersBelow(MaxAdminOrders) /\ CheckoutRead("s1", "card", "", 0)
    \/ CheckoutWrite("s1")
    \/ \E pid \in ProductIds, price \in PriceInputs, stock \in StockInputs : ProductEdit(pid, price, stock)
    \/ \E pid \in ProductIds : ProductDelete(pid)
    \/ \E price \in PriceInputs, stock \in StockInputs : ProductNew(price, stock)

SpecAdmin == InitRace /\ [][NextAdmin]_vars

(* SpecCheckout: one checkout request, with every form value, of a cart and a  *)
(* catalogue drawn from the states cart operations and admin screens lead to,  *)
(* while the admin creates and toggles the promo code and time passes.         *)

Carts == UNION {[keys -> 1 .. MaxQty] : keys \in SUBSET ProductIds}

Rows == {NoRow} \cup
        {[exists |-> TRUE, price |-> pr, stock |-> st] : pr \in PriceInputs, st \in StockInputs}

InitCheckout ==
    /\ product \in [ProductIds -> Rows]
    /\ product[1].exists /\ product[1].price = 50000
    /\ promo = [c \in Codes |-> NoPromo]
    /\ now = 1
    /\ user = [s \in Sessions |-> IF s = "s1" THEN "cashier" ELSE NoUser]
    /\ cart \in [Sessions -> Carts]
    /\ cart["s2"] = EmptyCart
    /\ flash = [s \in Sessions |-> ""]
    /\ req = [s \in Sessions |-> Idle]
    /\ orders = <<>>

NextCheckout ==
    \/ \E m \in MethodInputs, raw \in RawCodes, paid \in PaidInputs : CheckoutRead("s1", m, raw, paid)
    \/ CheckoutWrite("s1")
    \/ \E raw \in PromoFormCodes, kind \in KindInputs, value \in ValueInputs,
          active \in BOOLEAN, e \in ExpiryInputs : PromocodeNew(raw, kind, value, active, e)
    \/ \E code \in Codes : PromocodeToggle(code)
    \/ Tick

SpecCheckout == InitCheckout /\ [][NextCheckout]_vars

(* SpecForm: one cashier at the cart page, posting the checkout form with a     *)
(* payment method the form offers or one it does not.                          *)

NextForm ==
    \/ \E pid \in ProductIds : PosAddById("s1", pid)
    \/ \E raw \in RawCodes : PosView("s1", raw)
    \/ OrdersBelow(MaxOrders) /\ \E m \in MethodInputs \cup ForgedMethods, paid \in PaidInputs :
                                     CheckoutRead("s1", m, "", paid)
    \/ CheckoutWrite("s1")

SpecForm == InitRace /\ [][NextForm]_vars

(* SpecLedger: one cashier goes on selling product 1, with and without the     *)
(* promo code, while the admin edits product 1, deletes products and creates   *)
(* and toggles the code.                                                       *)

NextLedger ==
    \/ PosAddById("s1", 1)
    \/ PosClear("s1")
    \/ OrdersBelow(MaxOrders) /\ \E raw \in {"", "save"} : CheckoutRead("s1", "card", raw, 0)
    \/ CheckoutWrite("s1")
    \/ \E price \in PriceInputs, stock \in StockInputs : ProductEdit(1, price, stock)
    \/ \E pid \in ProductIds : ProductDelete(pid)
    \/ PromocodeNew(" save", "percent", 100, TRUE, NoExpiry)
    \/ \E code \in Codes : PromocodeToggle(code)

SpecLedger == InitRace /\ [][NextLedger]_vars

----------------------------------------------------------------------------
(* Properties *)

Last(seq) == seq[Len(seq)]

\* sum of quantity * unit_price over the items of an order
ItemsTotal(items) ==
    SumOver([p \in DOMAIN items |-> items[p].quantity * items[p].unit_price], DOMAIN items)

\* the pre-discount subtotal of a cart at the current prices, product by product
ExpectedSubtotal(c) ==
    SumOver([p \in ProductIds |-> CartGet(c, p) * product[p].price], ProductIds)

\* the discount section 4.2 gives a supplied code on a subtotal; 0 without a code
ExpectedDiscount(raw, subtotal) ==
    LET code == Normalize(raw)
    IN  IF code = "" THEN 0
        ELSE IF promo[code].kind = "percent"
        THEN Round2Ratio(subtotal * promo[code].value, 1000)
        ELSE Min(subtotal, 100 * promo[code].value)

ExpectedTotal(c, raw) ==
    Max(0, Round2(ExpectedSubtotal(c) - ExpectedDiscount(raw, ExpectedSubtotal(c))))

\* the reasons for which a checkout request must fail
PromoRefused(raw) ==
    LET code == Normalize(raw)
    IN  /\ code # ""
        /\ \/ code \notin Codes
           \/ ~promo[code].exists
           \/ ~promo[code].active
           \/ (promo[code].expires_at # NoExpiry /\ promo[code].expires_at < now)

MustFail(c, method, raw, paid_cash) ==
    \/ DOMAIN c = {}
    \/ \E p \in DOMAIN c : ~product[p].exists \/ c[p] > product[p].stock
    \/ PromoRefused(raw)
    \/ (method = "cash" /\ paid_cash < ExpectedTotal(c, raw))

\* C1: whatever the interleaving of the cashiers' cart operations and checkout
\* requests, no product's stock is negative.
C1_StockNeverNegative == \A p \in ProductIds : product[p].stock >= 0

\* C2: a checkout request that must fail (empty cart, missing product, quantity
\* above stock, unknown, inactive or expired promo code, cash below the total)
\* flashes its message, goes no further (so no Order and no OrderItem is ever
\* written for it) and leaves the stock and the cart as they were.
C2_FailedCheckoutChangesNothing ==
    [][<<flash, req>>' # <<flash, req>> =>
       \A m \in MethodInputs, raw \in RawCodes, paid \in PaidInputs :
          (CheckoutRead("s1", m, raw, paid) /\ MustFail(cart["s1"], m, raw, paid))
          => /\ flash'["s1"] # ""
             /\ req' = req
             /\ orders' = orders
             /\ product' = product
             /\ cart' = cart]_vars

C2_Witness ==
    /\ flash["s1"] = "Insufficient stock"
    /\ cart["s1"] # EmptyCart
    /\ \A p \in DOMAIN cart["s1"] : product[p].exists
    /\ req["s1"].pc = "idle"
    /\ orders = <<>>

\* C3: the discount of a checkout that passed the promo lookup lies between 0
\* and the subtotal, whenever the subtotal is not negative.
C3_DiscountWithinSubtotal ==
    \A s \in Sessions :
        (req[s].pc = "commit" /\ req[s].subtotal >= 0)
        => (0 <= req[s].discount /\ req[s].discount <= req[s].subtotal)

\* C4: the total a checkout computes is max(0, round(subtotal - discount, 2)) of
\* the cart's subtotal at the current prices and of the promo's discount (0
\* without a code); the Order is written with that total, which is never negative.
C4_OrderTotal ==
    [][/\ \A m \in MethodInputs, raw \in RawCodes, paid \in PaidInputs :
             (req'["s1"].pc = "commit" /\ req["s1"].pc = "idle" /\ CheckoutRead("s1", m, raw, paid))
             => /\ req'["s1"].total = ExpectedTotal(cart["s1"], raw)
                /\ req'["s1"].total >= 0
       /\ Len(orders') > Len(orders)
             => /\ Last(orders').total = req["s1"].total
                /\ Last(orders').total >= 0]_vars

C4_Witness ==
    /\ Len(orders) = 1
    /\ orders[1].subtotal > 0
    /\ orders[1].discount >= orders[1].subtotal
    /\ orders[1].total = 0

C6_NonCashOrders ==
    \A i \in 1 .. Len(orders) :
        orders[i].payment_method # "cash"
        => /\ orders[i].change_due = 0
           /\ orders[i].paid_cash = orders[i].total

C6_Witness ==
    \E i \in 1 .. Len(orders) :
        /\ orders[i].payment_method = "card"
        /\ orders[i].total > 0
        /\ orders[i].paid_cash = orders[i].total

\* C7: the write of a successful checkout leaves every product's stock at its
\* stock just before the write minus the cart's quantity of it (0 for a product
\* not in the cart).
C7_StockDecrement ==
    [][\A s \in Sessions :
          (CheckoutWrite(s) /\ Len(orders') > Len(orders))
          => \A p \in ProductIds :
                product'[p].stock = product[p].stock - CartGet(cart[s], p)]_vars

\* C8: every entry of a cart has a quantity > 0, and an update with a quantity
\* <= 0 removes the entry.
C8_CartQuantitiesPositive ==
    [][/\ \A s \in Sessions : \A p \in DOMAIN cart'[s] : cart'[s][p] > 0
       /\ \A pid \in ProductIds, qty \in QtyInputs :
             (qty <= 0 /\ PosUpdateQty("s1", pid, qty)) => pid \notin DOMAIN cart'["s1"]]_vars

C8_Witness ==
    /\ Len(orders) > 0
    /\ DOMAIN cart["s1"] = {1}
    /\ cart["s1"][1] = MaxQty

\* C9: a session that has logged out has an empty cart.
C9_LogoutEmptiesCart ==
    \A s \in Sessions : user[s] = NoUser => cart[s] = EmptyCart

\* C10: the items of every Order add up (quantity * unit_price) to the subtotal
\* the order's total was computed from.
C10_ItemsAddUpToSubtotal ==
    \A i \in 1 .. Len(orders) : ItemsTotal(orders[i].items) = orders[i].subtotal

\* C11: no step (product edit or delete, promo toggle, cart operation, checkout)
\* removes a written Order or changes its total, amount paid, change due, payment
\* method or the quantity and unit price of any of its items.
C11_OrdersImmutable ==
    [][/\ Len(orders') >= Len(orders)
       /\ \A i \in 1 .. Len(orders) :
             /\ orders'[i].total = orders[i].total
             /\ orders'[i].paid_cash = orders[i].paid_cash
             /\ orders'[i].change_due = orders[i].change_due
             /\ orders'[i].payment_method = orders[i].payment_method
             /\ orders'[i].items = orders[i].items]_vars

\* a second order written after the price of a product sold in the first one
\* was changed (or the product deleted and created again at another price)
C11_Witness ==
    /\ Len(orders) = 2
    /\ \E p \in DOMAIN orders[1].items \cap DOMAIN orders[2].items :
          orders[1].items[p].unit_price # orders[2].items[p].unit_price
    /\ orders[2].discount > 0

\* C12: the payment method of every Order is one of cash, card, upi, wallet.
C12_PaymentMethodEnumerated ==
    \A i \in 1 .. Len(orders) : orders[i].payment_method \in PaymentMethods

\* C13: the step that writes a session's Order (with one item per cart entry, at
\* the cart's quantity) leaves that session's cart empty; until that step the
\* cart of a checkout under way is still there; and a checkout step that writes
\* no Order (a rejected request, a write rolled back) leaves the cart as it was.
C13_CartClearedWithOrder ==
    [][/\ req'["s1"].pc = "commit" => cart'["s1"] # EmptyCart
       /\ (req["s1"].pc = "commit" /\ Len(orders') > Len(orders))
             => /\ cart'["s1"] = EmptyCart
                /\ DOMAIN Last(orders').items = DOMAIN cart["s1"]
                /\ \A p \in DOMAIN cart["s1"] :
                      Last(orders').items[p].quantity = cart["s1"][p]
       /\ (req["s1"].pc = "commit" /\ req'["s1"].pc = "idle" /\ Len(orders') = Len(orders))
             => cart' = cart
       /\ \A raw \in RawCodes :
             (req["s1"].pc = "idle" /\ CheckoutRead("s1", "card", raw, 0)) => cart' = cart]_vars

\* a second sale has just emptied the cart again, selling the last unit
C13_Witness ==
    /\ Len(orders) = 2
    /\ cart["s1"] = EmptyCart
    /\ req["s1"].pc = "idle"
    /\ product[1].exists
    /\ product[1].stock = 0
    /\ 1 \in DOMAIN orders[2].items

\* the cart c2 is the cart c with one more of product pid and nothing else changed
OneMore(c, c2, pid) ==
    /\ DOMAIN c2 = DOMAIN c \cup {pid}
    /\ c2[pid] = (IF pid \in DOMAIN c THEN c[pid] ELSE 0) + 1
    /\ \A q \in DOMAIN c \ {pid} : c2[q] = c[q]

\* C14: an add_by_barcode or add_by_id request naming an existing product leaves
\* the session's cart with one more of that product (whatever its stock) and
\* every other entry as it was; one naming no product (empty or unknown
\* barcode, unknown id) leaves the cart as it was; either way the other carts,
\* every product's stock and the orders are unchanged.
C14_AddIncrementsByOne ==
    [][/\ \A code \in BarcodeInputs :
             PosAddByBarcode("s1", code)
             => /\ \A p \in ProductIds :
                      (product[p].exists /\ Barcode(p) = code)
                      => OneMore(cart["s1"], cart'["s1"], p)
                /\ (\A p \in ProductIds : ~(product[p].exists /\ Barcode(p) = code))
                      => cart'["s1"] = cart["s1"]
                /\ cart'["s2"] = cart["s2"] /\ product' = product /\ orders' = orders
       /\ \A pid \in PidInputs :
             PosAddById("s1", pid)
             => /\ (pid \in ProductIds /\ product[pid].exists)
                      => OneMore(cart["s1"], cart'["s1"], pid)
                /\ ~(pid \in ProductIds /\ product[pid].exists)
                      => cart'["s1"] = cart["s1"]
                /\ cart'["s2"] = cart["s2"] /\ product' = product /\ orders' = orders]_vars

\* a cart holding both products, two of the one that has sold out
C14_Witness ==
    /\ product[1].exists
    /\ product[1].stock = 0
    /\ DOMAIN cart["s1"] = {1, 2}
    /\ cart["s1"][1] = 2
    /\ cart["s1"][2] = 1

\* the quantity of product p sold by the orders written so far
SoldQty(p) ==
    SumOver([i \in 1 .. Len(orders) |->
                IF p \in DOMAIN orders[i].items THEN orders[i].items[p].quantity ELSE 0],
            1 .. Len(orders))

\* C15: with no product edited or deleted, every product's seeded stock is its
\* current stock plus the quantities of it that the written orders sold.
C15_StockConserved ==
    \A p \in ProductIds : MaxStock = product[p].stock + SoldQty(p)

\* every entry of the cart references an existing product with enough stock
Sellable(c) ==
    /\ DOMAIN c # {}
    /\ \A p \in DOMAIN c : product[p].exists /\ product[p].stock >= c[p]

\* C16: for a cart whose every entry references an existing product with enough
\* stock, and any promo code, the total a checkout request goes on to write is
\* the total after discount the cart page computes in the same state for that
\* cart and code, and the Order is written with it; for a code that is unknown,
\* inactive or expired the page computes a zero discount while the checkout
\* request is rejected with the promo message.
C16_ViewTotalIsOrderTotal ==
    [][/\ \A m \in MethodInputs, raw \in RawCodes, paid \in PaidInputs :
             (req["s1"].pc = "idle" /\ promo' = promo /\ now' = now
                 /\ Sellable(cart["s1"]) /\ CheckoutRead("s1", m, raw, paid))
             => /\ req'["s1"].pc = "commit"
                      => req'["s1"].total = PosViewTotal(cart["s1"], raw)
                /\ PromoRefused(raw)
                      => /\ PosViewDiscount(raw, PosViewSubtotal(cart["s1"])) = 0
                         /\ PosViewTotal(cart["s1"], raw) = Round2(ExpectedSubtotal(cart["s1"]))
                         /\ req' = req
                         /\ flash'["s1"] = "Invalid or expired promo code."
       /\ (req["s1"].pc = "commit" /\ Len(orders') > Len(orders))
             => orders' = Append(orders, Last(orders')) /\ Last(orders').total = req["s1"].total]_vars

\* an order whose total carries a discount rounded to the cent, written for a
\* cart the page priced the same
C16_Witness ==
    /\ Len(orders) = 1
    /\ cart["s1"] = EmptyCart
    /\ orders[1].discount > 0
    /\ orders[1].discount < orders[1].subtotal
    /\ orders[1].total # orders[1].subtotal - orders[1].discount

====
